---- MODULE Spec2Model ----
(***************************************************************************)
(* Host-header validation of the SSR request pipeline                      *)
(* (packages/angular/ssr/src/utils/validation.ts, here src/unnamed/part_001)*)
(*                                                                         *)
(* Strings are sequences of one-character strings, so that split, trim,    *)
(* startsWith, endsWith, slice, toLowerCase and the regular expressions    *)
(* are computed character by character, as the code computes them.         *)
(* Header names are atomic strings; their case folding is NameToLowerCase. *)
(***************************************************************************)
EXTENDS Naturals, Sequences, FiniteSets

VARIABLES
  headers,        \* the request's header store: lower-case name -> stored value or Null
  url,            \* hostname of the request's URL (URL.hostname)
  allowedHosts,   \* the allowlist handed to the validator / the guard
  onErrorPromise, \* the guard's promise: Pending, or the error it was resolved with
  failures,       \* number of validation errors thrown so far; the next error object's identity
  iter,           \* the iterator handed out by the last entries() / [Symbol.iterator]() call
  yielded,        \* the pairs that iterator has returned to its caller
  last,           \* what the last call did: returned (and what) or threw (and which error)
  argument,       \* the argument getFirstHeaderValue is called with
  guards,         \* two guarded requests alive together: each one's headers and allowlist
  promises,       \* the onError promise of each of the two
  aborted,        \* the requests whose cancellation signal reports an abort
  requestIter     \* position of an iterator over the original request's headers, 0 without one

vars == <<headers, url, allowedHosts, onErrorPromise, failures, iter, yielded, last,
          argument, guards, promises, aborted, requestIter>>

\* What a single guarded request, validateUrl and validateRequest leave alone
others == <<argument, guards, promises, aborted, requestIter>>

\* The value of these before anything uses them
OthersIdle ==
  /\ argument = [type |-> "undefined", string |-> <<>>, array |-> <<>>]
  /\ guards = <<>>
  /\ promises = <<>>
  /\ aborted = {}
  /\ requestIter = 0

----------------------------------------------------------------------------
(* Values *)

\* null (Headers.get of a missing header) and undefined: one-element
\* sequences no string of characters can equal.
Null == <<"null">>
Undefined == <<"undefined">>

\* JavaScript's falsiness of string | null | undefined
Falsy(v) == v = Null \/ v = Undefined \/ v = <<>>

UpperChars == <<"A","B","C","D","E","F","G","H","I","J","K","L","M",
                "N","O","P","Q","R","S","T","U","V","W","X","Y","Z">>
LowerChars == <<"a","b","c","d","e","f","g","h","i","j","k","l","m",
                "n","o","p","q","r","s","t","u","v","w","x","y","z">>
DigitChars == <<"0","1","2","3","4","5","6","7","8","9">>

Range(s) == { s[i] : i \in DOMAIN s }

ToLowerChar(c) ==
  IF \E i \in DOMAIN UpperChars : UpperChars[i] = c
  THEN LowerChars[CHOOSE i \in DOMAIN UpperChars : UpperChars[i] = c]
  ELSE c

\* String.prototype.toLowerCase on a string of characters
ToLowerCase(s) == [i \in DOMAIN s |-> ToLowerChar(s[i])]

IsDigit(c) == c \in Range(DigitChars)
IsLetter(c) == c \in Range(LowerChars) \/ c \in Range(UpperChars)

DigitValue(c) == (CHOOSE i \in DOMAIN DigitChars : DigitChars[i] = c) - 1

\* Position of the first occurrence of a character of cs in s, 0 when none
IndexOfAny(s, cs) ==
  IF \E i \in DOMAIN s : s[i] \in cs
  THEN CHOOSE i \in DOMAIN s : s[i] \in cs /\ \A j \in 1..(i - 1) : s[j] \notin cs
  ELSE 0

\* Position of the last occurrence of character c in s, 0 when none
LastIndexOf(s, c) ==
  IF \E i \in DOMAIN s : s[i] = c
  THEN CHOOSE i \in DOMAIN s : s[i] = c /\ \A j \in (i + 1)..Len(s) : s[j] # c
  ELSE 0

\* String.prototype.startsWith / endsWith / slice(n)
StartsWith(s, t) == Len(t) <= Len(s) /\ SubSeq(s, 1, Len(t)) = t
EndsWith(s, t) == Len(t) <= Len(s) /\ SubSeq(s, Len(s) - Len(t) + 1, Len(s)) = t
Slice(s, n) == SubSeq(s, n + 1, Len(s))

\* value.split(',', 1)[0]: the part before the first comma, the whole string if none
SplitFirst(s) ==
  LET i == IndexOfAny(s, {","})
  IN IF i = 0 THEN s ELSE SubSeq(s, 1, i - 1)

WhiteSpace == {" "}

\* Mutant of Trim: only the leading whitespace is removed (trimStart)
TrimStartOnly(s) ==
  IF \A i \in DOMAIN s : s[i] \in WhiteSpace
  THEN <<>>
  ELSE LET a == CHOOSE i \in DOMAIN s : s[i] \notin WhiteSpace
                     /\ \A j \in 1..(i - 1) : s[j] \in WhiteSpace
       IN SubSeq(s, a, Len(s))

\* String.prototype.trim
Trim(s) ==
  IF \A i \in DOMAIN s : s[i] \in WhiteSpace
  THEN <<>>
  ELSE LET a == CHOOSE i \in DOMAIN s : s[i] \notin WhiteSpace
                     /\ \A j \in 1..(i - 1) : s[j] \in WhiteSpace
           b == CHOOSE i \in DOMAIN s : s[i] \notin WhiteSpace
                     /\ \A j \in (i + 1)..Len(s) : s[j] \in WhiteSpace
       IN SubSeq(s, a, b)

\* getFirstHeaderValue(value): value?.toString().split(',', 1)[0]?.trim()
GetFirstHeaderValue(value) ==
  IF value = Null \/ value = Undefined
  THEN Undefined
  ELSE Trim(SplitFirst(value))

\* Mutant of ArrayToString: the elements joined with a space
RECURSIVE ArrayJoinedWithSpace(_)
ArrayJoinedWithSpace(a) ==
  IF a = <<>> THEN <<>>
  ELSE IF Len(a) = 1 THEN a[1]
  ELSE a[1] \o <<" ">> \o ArrayJoinedWithSpace(Tail(a))

\* Array.prototype.toString, which value?.toString() calls for a string[]:
\* the elements joined with ","
RECURSIVE ArrayToString(_)
ArrayToString(a) ==
  IF a = <<>> THEN <<>>
  ELSE IF Len(a) = 1 THEN a[1]
  ELSE a[1] \o <<",">> \o ArrayToString(Tail(a))

\* value?.toString() of an argument string | string[] | undefined | null; the
\* optional chain leaves null and undefined as they are
ToStringOrNullish(arg) ==
  CASE arg.type = "null" -> Null
    [] arg.type = "undefined" -> Undefined
    [] arg.type = "string" -> arg.string
    [] arg.type = "array" -> ArrayToString(arg.array)

----------------------------------------------------------------------------
(* Constants of the validator *)

\* Mutant of HOST_HEADERS_TO_VALIDATE: the set built in the other order
HostHeadersReversed == <<"x-forwarded-host", "host">>

\* HOST_HEADERS_TO_VALIDATE = new Set(['host', 'x-forwarded-host']), in iteration order
HOST_HEADERS_TO_VALIDATE == <<"host", "x-forwarded-host">>

\* VALID_PORT_REGEX = /^\d+$/
VALID_PORT_REGEX(s) == Len(s) >= 1 /\ \A i \in DOMAIN s : IsDigit(s[i])

\* Mutant of VALID_PROTO_REGEX: the i flag is missing
ValidProtoCaseSensitive(s) == s = <<"h","t","t","p">> \/ s = <<"h","t","t","p","s">>

\* VALID_PROTO_REGEX = /^https?$/i
VALID_PROTO_REGEX(s) ==
  LET l == ToLowerCase(s)
  IN l = <<"h","t","t","p">> \/ l = <<"h","t","t","p","s">>

\* Mutant of VALID_HOST_REGEX: the i flag is missing
ValidHostCaseSensitive(s) ==
  /\ Len(s) >= 1
  /\ \A i \in DOMAIN s :
       s[i] \in Range(LowerChars) \/ IsDigit(s[i]) \/ s[i] \in {".", ":", "-"}

\* VALID_HOST_REGEX = /^[a-z0-9.:-]+$/i
VALID_HOST_REGEX(s) ==
  /\ Len(s) >= 1
  /\ \A i \in DOMAIN s :
       \/ ToLowerChar(s[i]) \in Range(LowerChars)
       \/ IsDigit(s[i])
       \/ s[i] \in {".", ":", "-"}

----------------------------------------------------------------------------
(* Errors: the message template, what fills it, and the object's identity *)

Error(kind, name, value, id) == [kind |-> kind, name |-> name, value |-> value, id |-> id]

\* no error thrown
NoError == Error("none", "", <<>>, 0)
\* the promise before resolve is called
Pending == Error("pending", "", <<>>, 0)

----------------------------------------------------------------------------
(* The platform's URL parser, as far as `http://${value}` exercises it.    *)
(* Header values of this model are made of ValueChars; a host whose last   *)
(* label is a number (an IPv4 address) or that is bracketed (IPv6) is      *)
(* outside it.                                                             *)

ValueChars == Range(LowerChars) \cup {"A", "B", "8", "0", ".", ":", "-", ",", " ", "/", "@", "*"}

\* The authority of a special-scheme URL ends at the first "/", "\", "?" or "#"
UrlAuthority(value) ==
  LET i == IndexOfAny(value, {"/", "\\", "?", "#"})
  IN IF i = 0 THEN value ELSE SubSeq(value, 1, i - 1)

\* Credentials end at the last "@" of the authority
UrlHostPort(value) ==
  LET a == UrlAuthority(value)
  IN Slice(a, LastIndexOf(a, "@"))

\* The host ends at the first ":"; the port follows it
UrlHost(value) ==
  LET hp == UrlHostPort(value)
      i == IndexOfAny(hp, {":"})
  IN IF i = 0 THEN hp ELSE SubSeq(hp, 1, i - 1)

UrlPort(value) ==
  LET hp == UrlHostPort(value)
      i == IndexOfAny(hp, {":"})
  IN IF i = 0 THEN <<>> ELSE Slice(hp, i)

RECURSIVE PortNumber(_)
PortNumber(s) ==
  IF s = <<>> THEN 0
  ELSE LET n == PortNumber(SubSeq(s, 1, Len(s) - 1)) * 10 + DigitValue(s[Len(s)])
       IN IF n > 65535 THEN 65536 ELSE n

ForbiddenHostChars == {" ", "#", "/", ":", "<", ">", "?", "@", "[", "\\", "]", "^", "|", "%"}

\* URL.canParse(`http://${value}`)
URLCanParse(value) ==
  /\ UrlHost(value) # <<>>
  /\ \A i \in DOMAIN UrlHost(value) : UrlHost(value)[i] \notin ForbiddenHostChars
  /\ \A i \in DOMAIN UrlPort(value) : IsDigit(UrlPort(value)[i])
  /\ PortNumber(UrlPort(value)) <= 65535

\* new URL(`http://${value}`).hostname: the host, lower-cased
URLHostname(value) == ToLowerCase(UrlHost(value))

----------------------------------------------------------------------------
(* The validator *)

\* Mutant of IsHostAllowed: slice(2) for slice(1), so the dot is not required
IsHostAllowedWithoutDot(hostname, hosts) ==
  \/ hostname \in hosts
  \/ \E allowedHost \in hosts :
       /\ StartsWith(allowedHost, <<"*", ".">>)
       /\ EndsWith(hostname, Slice(allowedHost, 2))

\* isHostAllowed(hostname, allowedHosts)
IsHostAllowed(hostname, hosts) ==
  \/ hostname \in hosts
  \/ \E allowedHost \in hosts :
       /\ StartsWith(allowedHost, <<"*", ".">>)
       /\ EndsWith(hostname, Slice(allowedHost, 1))

\* Mutant of VerifyHostAllowed: the allowlist is asked for url.host, the
\* hostname with its port, and not for url.hostname
VerifyHostWithPort(headerName, headerValue, hosts, id) ==
  LET value == GetFirstHeaderValue(headerValue)
  IN IF Falsy(value) THEN NoError
     ELSE IF ~URLCanParse(value) THEN Error("HeaderCannotBeParsed", headerName, <<>>, id)
     ELSE IF ~IsHostAllowed(ToLowerCase(UrlHostPort(value)), hosts)
          THEN Error("HeaderNotAllowed", headerName, value, id)
     ELSE NoError

\* Mutant of VerifyHostAllowed: an empty first value is not let through
VerifyHostEmptyChecked(headerName, headerValue, hosts, id) ==
  LET value == GetFirstHeaderValue(headerValue)
  IN IF value = Undefined THEN NoError
     ELSE IF ~URLCanParse(value) THEN Error("HeaderCannotBeParsed", headerName, <<>>, id)
     ELSE IF ~IsHostAllowed(URLHostname(value), hosts)
          THEN Error("HeaderNotAllowed", headerName, value, id)
     ELSE NoError

\* Mutant of VerifyHostAllowed: the value is parsed but its hostname is not
\* looked up in the allowlist
VerifyHostParsedOnly(headerName, headerValue, hosts, id) ==
  LET value == GetFirstHeaderValue(headerValue)
  IN IF Falsy(value) THEN NoError
     ELSE IF ~URLCanParse(value) THEN Error("HeaderCannotBeParsed", headerName, <<>>, id)
     ELSE NoError

\* verifyHostAllowed(headerName, headerValue, allowedHosts): the error it
\* throws (a new object, identity id), NoError when it returns
VerifyHostAllowed(headerName, headerValue, hosts, id) ==
  LET value == GetFirstHeaderValue(headerValue)
  IN IF Falsy(value) THEN NoError
     ELSE IF ~URLCanParse(value) THEN Error("HeaderCannotBeParsed", headerName, <<>>, id)
     ELSE IF ~IsHostAllowed(URLHostname(value), hosts)
          THEN Error("HeaderNotAllowed", headerName, value, id)
     ELSE NoError

\* name.toLowerCase() of the header names callers use
NameToLowerCase(name) ==
  CASE name \in {"host", "Host", "HOST"} -> "host"
    [] name \in {"x-forwarded-host", "X-Forwarded-Host"} -> "x-forwarded-host"
    [] name \in {"accept", "Accept"} -> "accept"
    [] OTHER -> name

\* Mutant of ValidateHeader: the name is looked up as the caller wrote it
ValidateHeaderCaseSensitive(name, value, hosts, id) ==
  IF Falsy(value) THEN NoError
  ELSE IF name \notin Range(HOST_HEADERS_TO_VALIDATE) THEN NoError
  ELSE VerifyHostAllowed(name, value, hosts, id)

\* Mutant of ValidateHeader: the check of the header's name is missing
ValidateHeaderAnyName(name, value, hosts, id) ==
  IF Falsy(value) THEN NoError ELSE VerifyHostAllowed(name, value, hosts, id)

\* validateHeader(name, value, allowedHosts, onError): the error it hands to
\* onError and re-throws, NoError when it returns
ValidateHeader(name, value, hosts, id) ==
  IF Falsy(value) THEN NoError
  ELSE IF NameToLowerCase(name) \notin Range(HOST_HEADERS_TO_VALIDATE) THEN NoError
  ELSE VerifyHostAllowed(name, value, hosts, id)

\* Mutants of OnError: onError is never called; every call settles the promise anew
OnErrorNeverCalled(promise, error) == promise
OnErrorResolvesAgain(promise, error) == error

\* resolve of onErrorPromise: the first call settles it, later calls do nothing
OnError(promise, error) == IF promise = Pending THEN error ELSE promise

\* Headers.get(name) of the underlying store: names are case-insensitive
OriginalGet(h, name) ==
  IF NameToLowerCase(name) \in DOMAIN h THEN h[NameToLowerCase(name)] ELSE Null

\* The first error a loop over names throws: for (const name of names) check(name)
RECURSIVE FirstError(_)
FirstError(errors) ==
  IF errors = <<>> THEN NoError
  ELSE IF Head(errors) # NoError THEN Head(errors)
  ELSE FirstError(Tail(errors))

\* validateHeaders(request): the error it throws, NoError when it returns
ValidateHeaders(h, id) ==
  LET hostError(headerName) ==
        LET headerValue == GetFirstHeaderValue(OriginalGet(h, headerName))
        IN IF ~Falsy(headerValue) /\ ~VALID_HOST_REGEX(headerValue)
           THEN Error("HeaderCharacters", headerName, <<>>, id)
           ELSE NoError
      xForwardedPort == GetFirstHeaderValue(OriginalGet(h, "x-forwarded-port"))
      xForwardedProto == GetFirstHeaderValue(OriginalGet(h, "x-forwarded-proto"))
  IN FirstError(
       [i \in DOMAIN HOST_HEADERS_TO_VALIDATE |-> hostError(HOST_HEADERS_TO_VALIDATE[i])]
       \o << IF ~Falsy(xForwardedPort) /\ ~VALID_PORT_REGEX(xForwardedPort)
             THEN Error("PortNumeric", "x-forwarded-port", <<>>, id)
             ELSE NoError,
             IF ~Falsy(xForwardedProto) /\ ~VALID_PROTO_REGEX(xForwardedProto)
             THEN Error("ProtoHttp", "x-forwarded-proto", <<>>, id)
             ELSE NoError >>)

\* validateUrl(url, allowedHosts): the error it throws, NoError when it returns
ValidateUrlError(hostname, hosts, id) ==
  IF ~IsHostAllowed(hostname, hosts)
  THEN Error("UrlNotAllowed", "", hostname, id)
  ELSE NoError

\* validateRequest(request, allowedHosts): validateHeaders, then validateUrl.
\* The function declares two parameters; a third argument is not read.
ValidateRequestError(h, hostname, hosts, disableHostCheck, id) ==
  FirstError(<< ValidateHeaders(h, id), ValidateUrlError(hostname, hosts, id) >>)

----------------------------------------------------------------------------
(* The header store of a Request (the platform's Headers): names are kept  *)
(* lower-case and enumerated in sorted order.                              *)

SortedNames == << "accept", "host", "x-forwarded-host", "x-forwarded-port",
                  "x-forwarded-prefix", "x-forwarded-proto" >>

Entry(key, value) == [key |-> key, value |-> value]
NoEntry == Entry("", Null)

\* Headers.entries() of the underlying store: the (name, value) pairs present
OriginalEntries(h) ==
  SelectSeq([i \in DOMAIN SortedNames |-> Entry(SortedNames[i], h[SortedNames[i]])],
            LAMBDA e : e.value # Null)

\* Headers.values() of the underlying store
OriginalValues(h) == [i \in DOMAIN OriginalEntries(h) |-> OriginalEntries(h)[i].value]

----------------------------------------------------------------------------
(* Inputs *)

\* Validation errors thrown on one guarded request that the model follows
MaxFailures == 2

\* The allowlists: 'a.b' plays example.com, '*.v' plays *.valid.com
AllowLists ==
  { {},
    { <<"a",".","b">> },
    { <<"a",".","b">>, <<"*",".","v">> } }

\* Stored values of a sensitive header (Headers keeps values trimmed)
SensitiveValues ==
  { Null,
    <<>>,
    <<"a",".","b">>,                              \* an exact entry
    <<"e",".","c">>,                              \* not allowed
    <<"s",".","v">>,                              \* a subdomain of v
    <<"v">>,                                      \* the wildcard's base domain
    <<"A",".","B">>,                              \* upper case
    <<"a",".","b",":","8","0">>,                  \* with a port
    <<"a",".","b",","," ","e",".","c">>,          \* allowed first, then another
    <<"e",".","c",",","a",".","b">>,              \* not allowed first
    <<","," ","e",".","c">>,                      \* an empty first value
    <<"a"," ","b">>,                              \* cannot be parsed
    <<"a",".","b","/","e">> }                     \* a path after the host

ForwardedHostValues ==
  { Null,
    <<>>,
    <<"a",".","b">>,
    <<"e",".","c">>,
    <<"e",".","c",",","a",".","b">> }

AcceptValues == { Null, <<"e",".","c">> }

\* The names callers pass to get()
CallerNames == { "host", "Host", "HOST", "x-forwarded-host", "X-Forwarded-Host", "accept" }

Headers(accept, host, xForwardedHost, port, prefix, proto) ==
  [n \in Range(SortedNames) |->
     CASE n = "accept" -> accept
       [] n = "host" -> host
       [] n = "x-forwarded-host" -> xForwardedHost
       [] n = "x-forwarded-port" -> port
       [] n = "x-forwarded-prefix" -> prefix
       [] n = "x-forwarded-proto" -> proto]

----------------------------------------------------------------------------
(* The guarded request: cloneRequestAndPatchHeaders *)

NoIter == [via |-> "none", pos |-> 0]

\* What a call did: kind "return" with the value, the values or the entry and
\* done flag it returned, or kind "throw" with the error thrown; signalled is
\* the error the call handed to onError (NoError when it did not call it)
Result(op, name, kind, value, values, entry, done, error, signalled) ==
  [op |-> op, name |-> name, kind |-> kind, value |-> value, values |-> values,
   entry |-> entry, done |-> done, error |-> error, signalled |-> signalled,
   disableHostCheck |-> FALSE, guard |-> 0]

NoResult == Result("none", "", "none", Null, <<>>, NoEntry, FALSE, NoError, NoError)

\* The state cloneRequestAndPatchHeaders returns: a pending promise, patched accessors
Init ==
  /\ \E accept \in AcceptValues, host \in SensitiveValues, xfh \in ForwardedHostValues :
       headers = Headers(accept, host, xfh, Null, Null, Null)
  /\ url = <<"a",".","b">>
  /\ allowedHosts \in AllowLists
  /\ onErrorPromise = Pending
  /\ failures = 0
  /\ iter = NoIter
  /\ yielded = <<>>
  /\ last = NoResult
  /\ OthersIdle

\* validateHeader's catch: onError(error), then throw error
Thrown(error, result) ==
  /\ onErrorPromise' = OnError(onErrorPromise, result.signalled)
  /\ failures' = failures + 1
  /\ last' = result

Returned(result) ==
  /\ UNCHANGED <<onErrorPromise, failures>>
  /\ last' = result

\* the patched headers.get(name)
PatchedGet(name) ==
  LET value == OriginalGet(headers, name)
      error == IF Falsy(value) THEN NoError
               ELSE ValidateHeader(name, value, allowedHosts, failures + 1)
  IN IF error # NoError
     THEN Thrown(error, Result("get", name, "throw", Null, <<>>, NoEntry, FALSE, error, error))
     ELSE Returned(Result("get", name, "return", value, <<>>, NoEntry, FALSE, NoError, NoError))

Get(name) ==
  /\ failures < MaxFailures
  /\ PatchedGet(name)
  /\ UNCHANGED <<headers, url, allowedHosts, iter, yielded>>
  /\ UNCHANGED others

\* the patched headers.values()
PatchedValues ==
  LET error == FirstError([i \in DOMAIN HOST_HEADERS_TO_VALIDATE |->
                 ValidateHeader(HOST_HEADERS_TO_VALIDATE[i],
                                OriginalGet(headers, HOST_HEADERS_TO_VALIDATE[i]),
                                allowedHosts, failures + 1)])
  IN IF error # NoError
     THEN Thrown(error, Result("values", "", "throw", Null, <<>>, NoEntry, FALSE, error, error))
     ELSE Returned(Result("values", "", "return", Null, OriginalValues(headers),
                          NoEntry, FALSE, NoError, NoError))

Values ==
  /\ failures < MaxFailures
  /\ PatchedValues
  /\ UNCHANGED <<headers, url, allowedHosts, iter, yielded>>
  /\ UNCHANGED others

\* the patched headers.entries(): a new iterator over originalEntries
PatchedEntries(via) ==
  /\ iter' = [via |-> via, pos |-> 1]
  /\ yielded' = <<>>
  /\ Returned(Result(via, "", "return", Null, <<>>, NoEntry, FALSE, NoError, NoError))

Entries ==
  /\ failures < MaxFailures
  /\ PatchedEntries("entries")
  /\ UNCHANGED <<headers, url, allowedHosts>>
  /\ UNCHANGED others

\* headers[Symbol.iterator] = headers.entries
SymbolIterator ==
  /\ failures < MaxFailures
  /\ PatchedEntries("iterator")
  /\ UNCHANGED <<headers, url, allowedHosts>>
  /\ UNCHANGED others

\* Mutant of IteratorNext: next() of the underlying iterator, unchecked
IteratorNextUnchecked ==
  LET entries == OriginalEntries(headers)
      done == iter.pos > Len(entries)
      entry == IF done THEN NoEntry ELSE entries[iter.pos]
  IN /\ iter' = [iter EXCEPT !.pos = IF done THEN iter.pos ELSE iter.pos + 1]
     /\ Returned(Result("next", entry.key, "return", Null, <<>>, entry, done, NoError, NoError))
     /\ yielded' = IF done THEN yielded ELSE Append(yielded, entry)

\* next() of the iterator the patched entries() returns
IteratorNext ==
  LET entries == OriginalEntries(headers)
      done == iter.pos > Len(entries)
      entry == IF done THEN NoEntry ELSE entries[iter.pos]
      error == IF done THEN NoError
               ELSE ValidateHeader(entry.key, entry.value, allowedHosts, failures + 1)
  IN /\ iter' = [iter EXCEPT !.pos = IF done THEN iter.pos ELSE iter.pos + 1]
     /\ IF error # NoError
        THEN /\ Thrown(error, Result("next", entry.key, "throw", Null, <<>>, NoEntry, FALSE, error, error))
             /\ UNCHANGED yielded
        ELSE /\ Returned(Result("next", entry.key, "return", Null, <<>>, entry, done, NoError, NoError))
             /\ yielded' = IF done THEN yielded ELSE Append(yielded, entry)

Next_ ==
  /\ iter # NoIter
  /\ failures < MaxFailures
  /\ IteratorNext
  /\ UNCHANGED <<headers, url, allowedHosts>>
  /\ UNCHANGED others

Next ==
  \/ \E name \in CallerNames : Get(name)
  \/ Values
  \/ Entries
  \/ SymbolIterator
  \/ Next_

Spec == Init /\ [][Next]_vars

----------------------------------------------------------------------------
(* Claims about the guarded request (Spec) *)

IsSensitive(name) == NameToLowerCase(name) \in {"host", "x-forwarded-host"}

\* The stored value of header `name` has a first value whose hostname is not allowed
HostnameNotAllowed(name) ==
  LET stored == OriginalGet(headers, name)
      first == GetFirstHeaderValue(stored)
  IN /\ stored # Null /\ stored # <<>>
     /\ first # <<>>
     /\ URLCanParse(first)
     /\ ~IsHostAllowed(URLHostname(first), allowedHosts)

\* The last call was get(n) of a sensitive header whose hostname is not allowed
C1_Case ==
  /\ last.op = "get"
  /\ IsSensitive(last.name)
  /\ HostnameNotAllowed(last.name)

\* The error 'Header "<n>" with value "<first value>" is not allowed.'
C1_Throws ==
  /\ last.kind = "throw"
  /\ last.error.kind = "HeaderNotAllowed"
  /\ last.error.name = last.name
  /\ last.error.value = GetFirstHeaderValue(OriginalGet(headers, last.name))

\* C1 as stated: get(n) of a sensitive header whose first value's hostname is
\* not allowed throws 'Header "<n>" with value "<first value>" is not
\* allowed.', and when the caller sees the throw the promise is resolved with
\* that same error object.
C1_ResolvedWithSameError ==
  C1_Case => C1_Throws /\ onErrorPromise = last.error

\* C1 as amended: get(n) throws that error, having handed that same error
\* object to onError first; the promise is resolved, with that object when no
\* earlier access on this request failed validation, and otherwise still with
\* the error of the first failing access.
C1_ThrowsAfterSignalling ==
  C1_Case =>
    /\ C1_Throws
    /\ last.signalled = last.error
    /\ onErrorPromise # Pending
    /\ (failures = 1 => onErrorPromise = last.error)
    /\ (failures > 1 => onErrorPromise.id = 1 /\ onErrorPromise # last.error)

C1_Witness ==
  /\ C1_Case
  /\ last.kind = "throw"
  /\ last.name = "x-forwarded-host"
  /\ onErrorPromise = last.error

\* C2: the promise is single-assignment. It is pending exactly as long as no
\* access has thrown a validation error; the first access that throws settles
\* it with the error it throws; every later failing access throws its own new
\* error and leaves the promise holding the first one.
C2_SingleAssignment ==
  /\ []((onErrorPromise = Pending) <=> (failures = 0))
  /\ [][ /\ (last'.kind = "throw") <=> (failures' = failures + 1)
         /\ (last'.kind # "throw") <=> (failures' = failures)
         /\ last'.kind # "throw" => onErrorPromise' = onErrorPromise
         /\ last'.kind = "throw" =>
              /\ last'.error.id = failures'
              /\ last'.error.kind \in {"HeaderNotAllowed", "HeaderCannotBeParsed"}
              /\ onErrorPromise' = IF onErrorPromise = Pending
                                   THEN last'.error
                                   ELSE onErrorPromise
       ]_vars

C2_Witness ==
  /\ failures = 2
  /\ last.kind = "throw"
  /\ last.error.id = 2
  /\ onErrorPromise.id = 1
  /\ onErrorPromise.name # last.error.name

\* C3: get(name) of a name that is not sensitive, or whose stored value is
\* absent or empty, returns what the underlying store returns, does not throw
\* and leaves the promise as it was, whatever the allowlist.
C3_GetWithoutValidation ==
  [][ ( /\ last'.op = "get"
        /\ \/ ~IsSensitive(last'.name)
           \/ OriginalGet(headers, last'.name) \in {Null, <<>>} )
      => /\ last'.kind = "return"
         /\ last'.value = OriginalGet(headers, last'.name)
         /\ last'.signalled = NoError
         /\ onErrorPromise' = onErrorPromise
    ]_vars

C3_Witness ==
  /\ last.op = "get"
  /\ last.name = "accept"
  /\ last.kind = "return"
  /\ last.value = <<"e",".","c">>
  /\ ~IsHostAllowed(last.value, allowedHosts)
  /\ onErrorPromise = Pending

\* The stored value of sensitive header `name` does not pass the per-header check
Disallowed(name) ==
  VerifyHostAllowed(name, OriginalGet(headers, name), allowedHosts, 0) # NoError

\* C4: values() checks host, then x-forwarded-host, before it returns the
\* enumeration: if either is disallowed it throws, with the promise resolved
\* and no value produced; when both are disallowed the error thrown and handed
\* to onError is the one for host; otherwise it returns the stored values.
C4_ValuesValidatesFirst ==
  last.op = "values" =>
    /\ Disallowed("host") =>
         last.kind = "throw" /\ last.error.name = "host"
    /\ ~Disallowed("host") /\ Disallowed("x-forwarded-host") =>
         last.kind = "throw" /\ last.error.name = "x-forwarded-host"
    /\ ~Disallowed("host") /\ ~Disallowed("x-forwarded-host") =>
         last.kind = "return" /\ last.values = OriginalValues(headers)
    /\ last.kind = "throw" =>
         /\ last.values = <<>>
         /\ last.signalled = last.error
         /\ onErrorPromise # Pending

C4_Witness ==
  /\ last.op = "values"
  /\ Disallowed("host")
  /\ Disallowed("x-forwarded-host")
  /\ last.kind = "throw"
  /\ last.error.name = "host"
  /\ onErrorPromise = last.error

\* The pair is one of a sensitive header that does not pass the per-header check
DisallowedEntry(e) == IsSensitive(e.key) /\ e.value # <<>> /\ Disallowed(e.key)

\* C5: the iterator of entries() and of default iteration validates per pair:
\* what it has returned is, in order, the underlying pairs it has passed that
\* are not disallowed; a next() that returns a pair returns the underlying
\* pair at its position, which is not disallowed; a next() that throws was
\* about to return a disallowed pair, returns nothing and leaves the promise
\* resolved; and it ends after the last underlying pair, having returned
\* exactly the underlying pairs when none is disallowed.
C5_EntriesValidateLazily ==
  iter.via \in {"entries", "iterator"} =>
    LET entries == OriginalEntries(headers)
    IN /\ iter.pos \in 1..(Len(entries) + 1)
       /\ yielded = SelectSeq(SubSeq(entries, 1, iter.pos - 1),
                              LAMBDA e : ~DisallowedEntry(e))
       /\ last.op = "next" /\ last.kind = "return" /\ ~last.done =>
            /\ last.entry = entries[iter.pos - 1]
            /\ ~DisallowedEntry(last.entry)
            /\ yielded # <<>> /\ yielded[Len(yielded)] = last.entry
       /\ last.op = "next" /\ last.kind = "throw" =>
            /\ DisallowedEntry(entries[iter.pos - 1])
            /\ last.entry = NoEntry
            /\ onErrorPromise # Pending
       /\ last.op = "next" /\ last.done =>
            /\ last.kind = "return"
            /\ iter.pos = Len(entries) + 1
            /\ ((\A i \in DOMAIN entries : ~DisallowedEntry(entries[i]))
                  => yielded = entries)

C5_Witness ==
  /\ iter.via = "iterator"
  /\ last.op = "next"
  /\ last.done
  /\ Len(OriginalEntries(headers)) = 3
  /\ Len(yielded) = 2
  /\ yielded[2].key = "x-forwarded-host"
  /\ failures = 1

----------------------------------------------------------------------------
(* validateUrl on its own: every hostname against every allowlist *)

\* Length of the hostnames, and size of the allowlists, the model draws
MaxHostLen == 4
MaxAllowedHosts == 2

HostChars == {"a", "b", "."}

Strings(chars, n) == UNION { [1..k -> chars] : k \in 0..n }

\* Allowlist entries: exact hostnames, wildcard patterns, and near-patterns
HostPatterns ==
  { <<"a">>,
    <<"b",".","a">>,
    <<"*",".","a">>,
    <<"*",".","b",".","a">>,
    <<"*",".">>,
    <<"*">>,
    <<"*","a">>,
    <<".","a">> }

Outcome(op, error) ==
  [NoResult EXCEPT !.op = op,
                   !.kind = IF error = NoError THEN "return" ELSE "throw",
                   !.error = error]

InitUrl ==
  /\ headers = Headers(Null, Null, Null, Null, Null, Null)
  /\ url \in Strings(HostChars, MaxHostLen)
  /\ allowedHosts \in { A \in SUBSET HostPatterns : Cardinality(A) <= MaxAllowedHosts }
  /\ onErrorPromise = Pending
  /\ failures = 0
  /\ iter = NoIter
  /\ yielded = <<>>
  /\ last = NoResult
  /\ OthersIdle

\* validateUrl(url, allowedHosts)
ValidateUrl ==
  /\ last' = Outcome("validateUrl", ValidateUrlError(url, allowedHosts, 1))
  /\ UNCHANGED <<headers, url, allowedHosts, onErrorPromise, failures, iter, yielded>>
  /\ UNCHANGED others

NextUrl == ValidateUrl

SpecUrl == InitUrl /\ [][NextUrl]_vars

\* h is a proper subdomain of the suffix of pattern '*.<suffix>': h = x.<suffix>
ProperSubdomainOf(h, pattern) ==
  /\ Len(pattern) >= 2 /\ pattern[1] = "*" /\ pattern[2] = "."
  /\ \E k \in 0..Len(h) :
       h = SubSeq(h, 1, k) \o <<".">> \o SubSeq(pattern, 3, Len(pattern))

\* C6: validateUrl accepts hostname h exactly when h is an element of the
\* allowlist or the allowlist holds a pattern '*.<suffix>' of whose suffix h
\* is a proper subdomain; a pattern '*.<suffix>' does not make <suffix>
\* itself allowed; a rejected h is reported as 'URL with hostname "<h>" is
\* not allowed.'.
C6_ExactOrProperSubdomain ==
  last.op = "validateUrl" =>
    /\ (last.kind = "return") <=>
         (url \in allowedHosts \/ \E p \in allowedHosts : ProperSubdomainOf(url, p))
    /\ ( /\ url \notin allowedHosts
         /\ \A p \in allowedHosts : <<"*", ".">> \o url # p => ~ProperSubdomainOf(url, p) )
       => last.kind = "throw"
    /\ last.kind = "throw" =>
         last.error.kind = "UrlNotAllowed" /\ last.error.value = url

C6_Witness ==
  /\ last.op = "validateUrl"
  /\ url = <<"b", ".", "a">>
  /\ allowedHosts = { <<"*",".","b",".","a">>, <<"a">> }
  /\ last.kind = "throw"

----------------------------------------------------------------------------
(* validateRequest: requests with the five forwarded headers *)

RequestHostValues ==
  { Null, <<>>, <<"a",".","b">>, <<"A",".","B",":","8">>, <<"a","/","b">>, <<",","e">> }
RequestForwardedHostValues ==
  { Null, <<>>, <<"a","-","b">>, <<"a","/","b">> }
RequestPortValues ==
  { Null, <<>>, <<"8","0">>, <<"a","b">>, <<"8","a">> }
RequestProtoValues ==
  { Null, <<>>, <<"h","t","t","p">>, <<"H","T","T","P">>, <<"h","t","t","p","s">>,
    <<"f","t","p">>, <<"h","t","t","p","s","s">> }
RequestPrefixValues ==
  { Null,
    <<"/","/","e">>, <<"\\","/","e">>, <<"/",".",".","/">>, <<".">>,
    <<"/","a","/",".","\\","b">>,
    <<"/","a",".","b">>, <<"/",".","w">> }
RequestUrls == { <<"a",".","b">>, <<"e",".","c">> }
RequestAllowLists == { { <<"a",".","b">> }, { <<"a",".","b">>, <<"*",".","v">> } }

InitRequest ==
  /\ \E host \in RequestHostValues, xfh \in RequestForwardedHostValues,
        port \in RequestPortValues, prefix \in RequestPrefixValues,
        proto \in RequestProtoValues :
       headers = Headers(Null, host, xfh, port, prefix, proto)
  /\ url \in RequestUrls
  /\ allowedHosts \in RequestAllowLists
  /\ onErrorPromise = Pending
  /\ failures = 0
  /\ iter = NoIter
  /\ yielded = <<>>
  /\ last = NoResult
  /\ OthersIdle

\* validateRequest(request, allowedHosts, disableHostCheck), as its callers call it
ValidateRequest(disableHostCheck) ==
  /\ last' = [Outcome("validateRequest",
                      ValidateRequestError(headers, url, allowedHosts, disableHostCheck, 1))
              EXCEPT !.disableHostCheck = disableHostCheck]
  /\ UNCHANGED <<headers, url, allowedHosts, onErrorPromise, failures, iter, yielded>>
  /\ UNCHANGED others

NextRequest == \E disableHostCheck \in BOOLEAN : ValidateRequest(disableHostCheck)

SpecRequest == InitRequest /\ [][NextRequest]_vars

----------------------------------------------------------------------------
(* Claims about validateRequest (SpecRequest) *)

\* The first value of header n of the request, Undefined when the header is absent
FirstValueOf(n) == GetFirstHeaderValue(OriginalGet(headers, n))

Present(v) == v # Undefined /\ v # Null

\* One or more characters, each a letter, a digit, '.', ':' or '-'
MadeOfHostCharacters(v) ==
  /\ Len(v) >= 1
  /\ \A i \in DOMAIN v : IsLetter(v[i]) \/ IsDigit(v[i]) \/ v[i] \in {".", ":", "-"}

AllDigits(v) == \A i \in DOMAIN v : IsDigit(v[i])

IsHttpOrHttps(v) == ToLowerCase(v) \in { <<"h","t","t","p">>, <<"h","t","t","p","s">> }

PathSeparators == {"/", "\\"}

\* The prefix begins with two or more separators, or has a segment '.' or '..'
PrefixRejected(v) ==
  \/ Len(v) >= 2 /\ v[1] \in PathSeparators /\ v[2] \in PathSeparators
  \/ \E i, j \in DOMAIN v :
       /\ i <= j
       /\ i = 1 \/ v[i - 1] \in PathSeparators
       /\ j = Len(v) \/ v[j + 1] \in PathSeparators
       /\ SubSeq(v, i, j) \in { <<".">>, <<".", ".">> }

\* C7: validateRequest always runs the header-format checks and runs the URL
\* allowlist check only when disableHostCheck is false: with disableHostCheck
\* true a request with well-formed headers passes whatever its URL hostname,
\* and a malformed header still makes it throw.
C7_DisableHostCheckSkipsUrl ==
  last.op = "validateRequest" =>
    /\ ValidateHeaders(headers, 1) # NoError =>
         last.kind = "throw" /\ last.error = ValidateHeaders(headers, 1)
    /\ ValidateHeaders(headers, 1) = NoError /\ last.disableHostCheck =>
         last.kind = "return"
    /\ ( /\ ValidateHeaders(headers, 1) = NoError
         /\ ~last.disableHostCheck
         /\ ~IsHostAllowed(url, allowedHosts) )
       => last.kind = "throw" /\ last.error.kind = "UrlNotAllowed"

\* C8: validateRequest rejects a request whose x-forwarded-prefix first value
\* begins with two or more '/' or '\' or has a path segment '.' or '..' (no
\* other header being malformed), with the x-forwarded-prefix message, and
\* raises no such error for a prefix whose segments merely contain a dot.
C8_PrefixTraversalRejected ==
  last.op = "validateRequest" =>
    LET prefix == FirstValueOf("x-forwarded-prefix")
    IN /\ ( /\ Present(prefix)
            /\ PrefixRejected(prefix)
            /\ ValidateHeaders(headers, 1) = NoError )
          => last.kind = "throw" /\ last.error.kind = "PrefixTraversal"
       /\ Present(prefix) /\ ~PrefixRejected(prefix) =>
            last.error.kind # "PrefixTraversal"

\* validateRequest threw 'Header "<n>" contains characters that are not allowed.'
ThrewHeaderCharacters(n) ==
  last.kind = "throw" /\ last.error.kind = "HeaderCharacters" /\ last.error.name = n

\* C9 as stated: for host and for x-forwarded-host, validateRequest throws
\* 'Header "<name>" contains characters that are not allowed.' whenever the
\* header's first value is present and is not made up of one or more letters,
\* digits, '.', ':' and '-', and raises no format error for that header when
\* the first value is made up of such characters.
C9_HostFormatWheneverPresent ==
  last.op = "validateRequest" =>
    \A n \in {"host", "x-forwarded-host"} :
      /\ Present(FirstValueOf(n)) /\ ~MadeOfHostCharacters(FirstValueOf(n)) =>
           ThrewHeaderCharacters(n)
      /\ Present(FirstValueOf(n)) /\ MadeOfHostCharacters(FirstValueOf(n)) =>
           ~ThrewHeaderCharacters(n)

\* The first value of header n is present, not empty, and has a character
\* other than letters, digits, '.', ':' and '-'
BadHostFormat(n) ==
  /\ Present(FirstValueOf(n))
  /\ FirstValueOf(n) # <<>>
  /\ ~MadeOfHostCharacters(FirstValueOf(n))

\* C9 as amended: validateRequest throws that error whenever the first value
\* of host or of x-forwarded-host is present, not empty and has a character
\* other than letters, digits, '.', ':' and '-'; the error names host when
\* host's first value is such, and x-forwarded-host otherwise; it raises no
\* format error for a header whose first value is absent, empty or made up of
\* such characters only.
C9_HostFormatNonEmptyInOrder ==
  last.op = "validateRequest" =>
    /\ BadHostFormat("host") => ThrewHeaderCharacters("host")
    /\ ~BadHostFormat("host") /\ BadHostFormat("x-forwarded-host") =>
         ThrewHeaderCharacters("x-forwarded-host")
    /\ \A n \in {"host", "x-forwarded-host"} :
         ~BadHostFormat(n) => ~ThrewHeaderCharacters(n)

C9_Witness ==
  /\ last.op = "validateRequest"
  /\ FirstValueOf("host") = <<>>
  /\ OriginalGet(headers, "host") # <<>>
  /\ BadHostFormat("x-forwarded-host")
  /\ ThrewHeaderCharacters("x-forwarded-host")

\* C10 as stated: validateRequest throws 'Header "x-forwarded-port" must be a
\* numeric value.' when the first value of x-forwarded-port is present and not
\* all digits, and 'Header "x-forwarded-proto" must be either "http" or
\* "https".' when the first value of x-forwarded-proto is present and not http
\* or https ignoring case; an all-digit port and HTTP in any case raise
\* neither.
C10_PortAndProtoWhenPresent ==
  last.op = "validateRequest" =>
    LET port == FirstValueOf("x-forwarded-port")
        proto == FirstValueOf("x-forwarded-proto")
    IN /\ Present(port) /\ ~AllDigits(port) =>
            last.kind = "throw" /\ last.error.kind = "PortNumeric"
       /\ Present(proto) /\ ~IsHttpOrHttps(proto) =>
            last.kind = "throw" /\ last.error.kind = "ProtoHttp"
       /\ Present(port) /\ AllDigits(port) => last.error.kind # "PortNumeric"
       /\ Present(proto) /\ IsHttpOrHttps(proto) => last.error.kind # "ProtoHttp"

\* C10 as amended: validateRequest throws the x-forwarded-port error when
\* that header's first value is present and not all digits and neither host
\* nor x-forwarded-host fails its format check; it throws the
\* x-forwarded-proto error when that header's first value is present, not
\* empty and not http or https ignoring case, and none of host,
\* x-forwarded-host and x-forwarded-port fails its check; an all-digit port
\* and http or https in any case raise neither error.
C10_PortAndProtoInOrder ==
  last.op = "validateRequest" =>
    LET port == FirstValueOf("x-forwarded-port")
        proto == FirstValueOf("x-forwarded-proto")
        hostsPass == ~BadHostFormat("host") /\ ~BadHostFormat("x-forwarded-host")
        badPort == Present(port) /\ ~AllDigits(port)
        badProto == Present(proto) /\ proto # <<>> /\ ~IsHttpOrHttps(proto)
    IN /\ hostsPass /\ badPort =>
            last.kind = "throw" /\ last.error.kind = "PortNumeric"
       /\ hostsPass /\ ~badPort /\ badProto =>
            last.kind = "throw" /\ last.error.kind = "ProtoHttp"
       /\ ~badPort => last.error.kind # "PortNumeric"
       /\ ~badProto => last.error.kind # "ProtoHttp"

C10_Witness ==
  /\ last.op = "validateRequest"
  /\ FirstValueOf("x-forwarded-port") = <<"8","0">>
  /\ FirstValueOf("x-forwarded-proto") = <<"f","t","p">>
  /\ last.kind = "throw"
  /\ last.error.kind = "ProtoHttp"

----------------------------------------------------------------------------
(* getFirstHeaderValue on its own: a string, an array of strings, null or
   undefined goes in, and the call records what comes out *)

MaxValueLen == 3
MaxElementLen == 2
MaxArrayLen == 2

FirstValueChars == {"a", " ", ","}

StringArgument(s) == [type |-> "string", string |-> s, array |-> <<>>]
ArrayArgument(a) == [type |-> "array", string |-> <<>>, array |-> a]
NullArgument == [type |-> "null", string |-> <<>>, array |-> <<>>]
UndefinedArgument == [type |-> "undefined", string |-> <<>>, array |-> <<>>]

Arrays ==
  UNION {[1..n -> Strings(FirstValueChars, MaxElementLen)] : n \in 0..MaxArrayLen}

Arguments ==
  {NullArgument, UndefinedArgument}
    \cup {StringArgument(s) : s \in Strings(FirstValueChars, MaxValueLen)}
    \cup {ArrayArgument(a) : a \in Arrays}

InitFirstValue ==
  /\ argument \in Arguments
  /\ headers = Headers(Null, Null, Null, Null, Null, Null)
  /\ url = <<>>
  /\ allowedHosts = {}
  /\ onErrorPromise = Pending
  /\ failures = 0
  /\ iter = NoIter
  /\ yielded = <<>>
  /\ last = NoResult
  /\ guards = <<>>
  /\ promises = <<>>
  /\ aborted = {}
  /\ requestIter = 0

\* getFirstHeaderValue(argument)
GetFirstHeaderValueCall ==
  /\ last' = [NoResult EXCEPT !.op = "getFirstHeaderValue",
                              !.kind = "return",
                              !.value = GetFirstHeaderValue(ToStringOrNullish(argument))]
  /\ UNCHANGED <<headers, url, allowedHosts, onErrorPromise, failures, iter, yielded>>
  /\ UNCHANGED others

NextFirstValue == GetFirstHeaderValueCall

SpecFirstValue == InitFirstValue /\ [][NextFirstValue]_vars

\* r is the first comma-separated value of e with the surrounding whitespace
\* removed: the stretch of e before its first comma (all of e without one),
\* shortened at both ends by whitespace only, itself not starting or ending
\* with whitespace
IsFirstValueOf(r, e) ==
  \E c \in 1..(Len(e) + 1) :
    /\ c = Len(e) + 1 \/ e[c] = ","
    /\ \A k \in 1..(c - 1) : e[k] # ","
    /\ \E a \in 1..c : \E b \in (a - 1)..(c - 1) :
         /\ r = SubSeq(e, a, b)
         /\ \A k \in 1..(a - 1) : e[k] = " "
         /\ \A k \in (b + 1)..(c - 1) : e[k] = " "
         /\ r = <<>> \/ (r[1] # " " /\ r[Len(r)] # " ")

PlainValue(e) ==
  /\ \A k \in DOMAIN e : e[k] # ","
  /\ e = <<>> \/ (e[1] # " " /\ e[Len(e)] # " ")

\* C11 (as stated): applied to a non-empty sequence of strings,
\* getFirstHeaderValue returns the first element as it is, neither split at a
\* comma nor trimmed, so the result equals s[0] for every non-empty s.
C11_FirstElementAsIs ==
  (last.op = "getFirstHeaderValue" /\ argument.type = "array" /\ argument.array # <<>>)
    => last.value = argument.array[1]

\* C11 (amended): applied to a non-empty sequence of strings,
\* getFirstHeaderValue returns the first comma-separated value of the first
\* element with surrounding whitespace removed; the result equals s[0] when
\* s[0] has no comma and no surrounding whitespace.
C11_FirstValueOfFirstElement ==
  (last.op = "getFirstHeaderValue" /\ argument.type = "array" /\ argument.array # <<>>)
    => /\ IsFirstValueOf(last.value, argument.array[1])
       /\ PlainValue(argument.array[1]) => last.value = argument.array[1]

C11_Witness ==
  /\ last.op = "getFirstHeaderValue"
  /\ argument.type = "array"
  /\ argument.array = << <<"a", ",">>, <<"a">> >>
  /\ last.value = <<"a">>

----------------------------------------------------------------------------
(* The lazy guard and the eager validator on the same request: one of the
   sensitive headers carries a value, and the caller either reads the guarded
   request or hands the request to validateRequest *)

InitLazyEager ==
  /\ \E value \in SensitiveValues :
       \/ headers = Headers(Null, value, Null, Null, Null, Null)
       \/ headers = Headers(Null, Null, value, Null, Null, Null)
  /\ url = <<"a",".","b">>
  /\ allowedHosts \in AllowLists
  /\ onErrorPromise = Pending
  /\ failures = 0
  /\ iter = NoIter
  /\ yielded = <<>>
  /\ last = NoResult
  /\ OthersIdle

NextLazyEager ==
  \/ \E name \in CallerNames : Get(name)
  \/ Values
  \/ Entries
  \/ SymbolIterator
  \/ Next_
  \/ \E disableHostCheck \in BOOLEAN : ValidateRequest(disableHostCheck)

SpecLazyEager == InitLazyEager /\ [][NextLazyEager]_vars

\* validateRequest on this request fails because of header n
EagerFailsBecauseOf(n) ==
  LET error == ValidateRequestError(headers, url, allowedHosts, FALSE, 1)
  IN error.kind = "HeaderCharacters" /\ error.name = n

\* hostname is in the allowlist, or a proper subdomain of one of its '*.' patterns
AllowedByAllowlist(hostname) ==
  \/ hostname \in allowedHosts
  \/ \E p \in allowedHosts : ProperSubdomainOf(hostname, p)

\* The first value of header n is not empty, and 'http://<first value>' is
\* no URL or its hostname is not allowed
GuardRejects(n) ==
  LET v == FirstValueOf(n)
  IN /\ Present(v)
     /\ v # <<>>
     /\ ~URLCanParse(v) \/ ~AllowedByAllowlist(URLHostname(v))

\* C13 (as stated): the guard defers the identical checks of the eager
\* validator: get of host or x-forwarded-host on the guarded request fails
\* exactly when validateRequest on a request with the same header value fails
\* because of that header.
C13_LazyEqualsEager ==
  (last.op = "get" /\ last.name \in {"host", "x-forwarded-host"})
    => ((last.kind = "throw") <=> EagerFailsBecauseOf(last.name))

\* C13 (amended): the two apply different checks. get of host or
\* x-forwarded-host on the guarded request fails exactly when the header's
\* first value is not empty and either 'http://<first value>' cannot be parsed
\* or its hostname is not allowed by the allowlist; validateRequest fails
\* because of that header exactly when its first value is not empty and has a
\* character other than letters, digits, '.', ':' and '-', whatever the
\* allowlist; both succeed when the header is absent or its first value empty.
C13_LazyAllowlistEagerFormat ==
  /\ (last.op = "get" /\ last.name \in {"host", "x-forwarded-host"})
       => ((last.kind = "throw") <=> GuardRejects(last.name))
  /\ last.op = "validateRequest" =>
       \A n \in {"host", "x-forwarded-host"} :
         (last.kind = "throw" /\ last.error.kind = "HeaderCharacters" /\ last.error.name = n)
           <=> BadHostFormat(n)
  /\ \A n \in {"host", "x-forwarded-host"} :
       (~Present(FirstValueOf(n)) \/ FirstValueOf(n) = <<>>) =>
         /\ (last.op = "get" /\ last.name = n) => last.kind = "return"
         /\ last.op = "validateRequest" => last.error.name # n

\* get('host') throws for a well-formed host that is not allowed, which
\* validateRequest's header check lets through
C13_Witness ==
  /\ last.op = "get"
  /\ last.name = "host"
  /\ OriginalGet(headers, "host") = <<"e",".","c">>
  /\ last.kind = "throw"
  /\ ~EagerFailsBecauseOf("host")

----------------------------------------------------------------------------
(* The original request next to the guarded one: the caller keeps the request
   it passed to cloneRequestAndPatchHeaders, reads its headers too, and may
   abort it *)

\* Mutant of PatchedHeaders: const headers = request.headers
PatchedHeadersOfRequest == "request"

\* const headers = clonedReq.headers: the Headers object whose get, values,
\* entries and Symbol.iterator are replaced
PatchedHeaders == "clonedReq"

\* Mutant of ClonedReqSignal: the clone is built without the signal option
\* and has a signal of its own
ClonedReqOwnSignal == "clonedReq"

\* new Request(request.clone(), { signal: request.signal }): the request
\* whose signal the clone follows
ClonedReqSignal == "request"

InitOriginal ==
  /\ \E host \in { <<"a",".","b">>, <<"e",".","c">> },
        xfh \in { Null, <<"e",".","c">> } :
       headers = Headers(Null, host, xfh, Null, Null, Null)
  /\ url = <<"a",".","b">>
  /\ allowedHosts \in AllowLists
  /\ onErrorPromise = Pending
  /\ failures = 0
  /\ iter = NoIter
  /\ yielded = <<>>
  /\ last = NoResult
  /\ OthersIdle

\* request.headers.get(name) on the original request
RequestGet(name) ==
  /\ IF PatchedHeaders = "request"
     THEN PatchedGet(name)
     ELSE Returned(Result("request.get", name, "return", OriginalGet(headers, name),
                          <<>>, NoEntry, FALSE, NoError, NoError))
  /\ UNCHANGED <<headers, url, allowedHosts, iter, yielded>>
  /\ UNCHANGED others

\* request.headers.values() on the original request
RequestValues ==
  /\ IF PatchedHeaders = "request"
     THEN PatchedValues
     ELSE Returned(Result("request.values", "", "return", Null, OriginalValues(headers),
                          NoEntry, FALSE, NoError, NoError))
  /\ UNCHANGED <<headers, url, allowedHosts, iter, yielded>>
  /\ UNCHANGED others

\* request.headers.entries() and request.headers[Symbol.iterator]() on the
\* original request
RequestEntries(via) ==
  /\ IF PatchedHeaders = "request"
     THEN /\ PatchedEntries(via)
          /\ UNCHANGED requestIter
     ELSE /\ requestIter' = 1
          /\ Returned(Result("request.entries", "", "return", Null, <<>>, NoEntry,
                              FALSE, NoError, NoError))
          /\ UNCHANGED <<iter, yielded>>
  /\ UNCHANGED <<headers, url, allowedHosts>>
  /\ UNCHANGED <<argument, guards, promises, aborted>>

\* next() of an iterator over the original request's headers
RequestNext ==
  LET entries == OriginalEntries(headers)
      done == requestIter > Len(entries)
      entry == IF done THEN NoEntry ELSE entries[requestIter]
  IN /\ requestIter # 0
     /\ requestIter' = IF done THEN requestIter ELSE requestIter + 1
     /\ Returned(Result("request.next", entry.key, "return", Null, <<>>, entry, done,
                         NoError, NoError))
     /\ UNCHANGED <<headers, url, allowedHosts, iter, yielded>>
     /\ UNCHANGED <<argument, guards, promises, aborted>>

\* The original request's signal aborts, and with it every signal that follows it
Abort ==
  /\ aborted' = {"request"} \cup (IF ClonedReqSignal = "request" THEN {"clonedReq"} ELSE {})
  /\ UNCHANGED <<headers, url, allowedHosts, onErrorPromise, failures, iter, yielded, last>>
  /\ UNCHANGED <<argument, guards, promises, requestIter>>

NextOriginal ==
  \/ \E name \in CallerNames : Get(name)
  \/ Values
  \/ Entries
  \/ SymbolIterator
  \/ Next_
  \/ \E name \in CallerNames : RequestGet(name)
  \/ RequestValues
  \/ \E via \in {"entries", "iterator"} : RequestEntries(via)
  \/ RequestNext
  \/ Abort

SpecOriginal == InitOriginal /\ [][NextOriginal]_vars

\* A call on the original request's headers
RequestAccess ==
  \/ \E name \in CallerNames : RequestGet(name)
  \/ RequestValues
  \/ \E via \in {"entries", "iterator"} : RequestEntries(via)
  \/ RequestNext

\* What a call on the original request's headers returned is what is stored
ReturnedStored ==
  /\ last.op = "request.get" => last.value = OriginalGet(headers, last.name)
  /\ last.op = "request.values" => last.values = OriginalValues(headers)
  /\ last.op = "request.next" =>
       \/ last.done /\ requestIter = Len(OriginalEntries(headers)) + 1
       \/ ~last.done /\ last.entry = OriginalEntries(headers)[requestIter - 1]

\* C14: the original request is left untouched. Whatever was read on the
\* guarded request before, a get, values, entries or iteration on the original
\* request's headers returns what is stored, never throws, resolves no
\* signal and changes no header, even for a disallowed host; the guarded
\* request's cancellation signal is aborted exactly when the original's is.
C14_OriginalUntouched ==
  /\ [](ReturnedStored /\ (("clonedReq" \in aborted) <=> ("request" \in aborted)))
  /\ [][RequestAccess =>
          /\ last'.kind = "return"
          /\ last'.op \in {"request.get", "request.values", "request.entries", "request.next"}
          /\ onErrorPromise' = onErrorPromise
          /\ failures' = failures
          /\ headers' = headers]_vars

\* get('host') on the original returned a disallowed host, no signal resolved,
\* after the original's signal was aborted
C14_Witness ==
  /\ last.op = "request.get"
  /\ last.name = "host"
  /\ last.value = <<"e",".","c">>
  /\ ~IsHostAllowed(<<"e",".","c">>, allowedHosts)
  /\ onErrorPromise = Pending
  /\ aborted = {"request", "clonedReq"}

----------------------------------------------------------------------------
(* Two guarded requests alive together: cloneRequestAndPatchHeaders was called
   twice, and the caller reads the two results' headers in any order *)

GuardIds == {1, 2}

\* Mutant of GuardOnError: onError declared outside the function, so that
\* every guard calls the resolver of the latest call
OnErrorOfLatestCall(g) == 2

\* let onError, assigned in the promise executor of the same call: the
\* promise the accessors of guard g resolve
GuardOnError(g) == g

\* the allowedHosts parameter the accessors of guard g close over
GuardAllowedHosts(g) == guards[g].allowedHosts

GuardHeaders ==
  { Headers(Null, <<"e",".","c">>, Null, Null, Null, Null),
    Headers(Null, <<"a",".","b">>, <<"e",".","c">>, Null, Null, Null),
    Headers(Null, <<"s",".","v">>, Null, Null, Null, Null) }

InitTwoGuards ==
  /\ guards \in [GuardIds -> [headers : GuardHeaders, allowedHosts : AllowLists, pos : {0}]]
  /\ promises = [g \in GuardIds |-> Pending]
  /\ headers = Headers(Null, Null, Null, Null, Null, Null)
  /\ url = <<>>
  /\ allowedHosts = {}
  /\ onErrorPromise = Pending
  /\ failures = 0
  /\ iter = NoIter
  /\ yielded = <<>>
  /\ last = NoResult
  /\ argument = UndefinedArgument
  /\ aborted = {}
  /\ requestIter = 0

\* validateHeader's catch in an accessor of guard g: onError(error), throw error
GuardThrown(g, error, result) ==
  /\ promises' = [promises EXCEPT ![GuardOnError(g)] = OnError(@, error)]
  /\ failures' = failures + 1
  /\ last' = [result EXCEPT !.guard = g]

GuardReturned(g, result) ==
  /\ UNCHANGED <<promises, failures>>
  /\ last' = [result EXCEPT !.guard = g]

\* the patched headers.get(name) of guard g
GuardGet(g, name) ==
  LET value == OriginalGet(guards[g].headers, name)
      error == IF Falsy(value) THEN NoError
               ELSE ValidateHeader(name, value, GuardAllowedHosts(g), failures + 1)
  IN /\ failures < MaxFailures
     /\ IF error # NoError
        THEN GuardThrown(g, error, Result("get", name, "throw", Null, <<>>, NoEntry, FALSE, error, error))
        ELSE GuardReturned(g, Result("get", name, "return", value, <<>>, NoEntry, FALSE, NoError, NoError))
     /\ UNCHANGED <<headers, url, allowedHosts, onErrorPromise, iter, yielded>>
     /\ UNCHANGED <<argument, guards, aborted, requestIter>>

\* the patched headers.values() of guard g
GuardValues(g) ==
  LET error == FirstError([i \in DOMAIN HOST_HEADERS_TO_VALIDATE |->
                 ValidateHeader(HOST_HEADERS_TO_VALIDATE[i],
                                OriginalGet(guards[g].headers, HOST_HEADERS_TO_VALIDATE[i]),
                                GuardAllowedHosts(g), failures + 1)])
  IN /\ failures < MaxFailures
     /\ IF error # NoError
        THEN GuardThrown(g, error, Result("values", "", "throw", Null, <<>>, NoEntry, FALSE, error, error))
        ELSE GuardReturned(g, Result("values", "", "return", Null, OriginalValues(guards[g].headers),
                                     NoEntry, FALSE, NoError, NoError))
     /\ UNCHANGED <<headers, url, allowedHosts, onErrorPromise, iter, yielded>>
     /\ UNCHANGED <<argument, guards, aborted, requestIter>>

\* the patched headers.entries() of guard g (also its Symbol.iterator)
GuardEntries(g) ==
  /\ failures < MaxFailures
  /\ guards' = [guards EXCEPT ![g].pos = 1]
  /\ GuardReturned(g, Result("entries", "", "return", Null, <<>>, NoEntry, FALSE, NoError, NoError))
  /\ UNCHANGED <<headers, url, allowedHosts, onErrorPromise, iter, yielded>>
  /\ UNCHANGED <<argument, aborted, requestIter>>

\* next() of the iterator the patched entries() of guard g returned
GuardNext(g) ==
  LET entries == OriginalEntries(guards[g].headers)
      pos == guards[g].pos
      done == pos > Len(entries)
      entry == IF done THEN NoEntry ELSE entries[pos]
      error == IF done THEN NoError
               ELSE ValidateHeader(entry.key, entry.value, GuardAllowedHosts(g), failures + 1)
  IN /\ pos # 0
     /\ failures < MaxFailures
     /\ guards' = [guards EXCEPT ![g].pos = IF done THEN pos ELSE pos + 1]
     /\ IF error # NoError
        THEN GuardThrown(g, error, Result("next", entry.key, "throw", Null, <<>>, NoEntry, FALSE, error, error))
        ELSE GuardReturned(g, Result("next", entry.key, "return", Null, <<>>, entry, done, NoError, NoError))
     /\ UNCHANGED <<headers, url, allowedHosts, onErrorPromise, iter, yielded>>
     /\ UNCHANGED <<argument, aborted, requestIter>>

NextTwoGuards ==
  \E g \in GuardIds :
    \/ \E name \in {"host", "x-forwarded-host", "accept"} : GuardGet(g, name)
    \/ GuardValues(g)
    \/ GuardEntries(g)
    \/ GuardNext(g)

SpecTwoGuards == InitTwoGuards /\ [][NextTwoGuards]_vars

\* Header n of guard g has a non-empty first value that cannot be parsed or
\* whose hostname neither is in g's allowlist nor is a proper subdomain of
\* one of its '*.' patterns
RejectedByOwnAllowlist(g, n) ==
  LET v == GetFirstHeaderValue(OriginalGet(guards[g].headers, n))
      hosts == guards[g].allowedHosts
  IN /\ Present(v)
     /\ v # <<>>
     /\ \/ ~URLCanParse(v)
        \/ /\ URLHostname(v) \notin hosts
           /\ \A p \in hosts : ~ProperSubdomainOf(URLHostname(v), p)

\* The last access, on guard last.guard, was judged against that guard's own
\* headers and allowlist
JudgedAgainstOwnAllowlist ==
  /\ (last.op \in {"get", "next"} /\ last.name \in {"host", "x-forwarded-host"} /\ ~last.done)
       => ((last.kind = "throw") <=> RejectedByOwnAllowlist(last.guard, last.name))
  /\ last.op = "values" =>
       ((last.kind = "throw") <=>
          \E n \in {"host", "x-forwarded-host"} : RejectedByOwnAllowlist(last.guard, n))
  /\ last.kind = "throw" => RejectedByOwnAllowlist(last.guard, last.error.name)

\* C15: with two guarded requests and their accesses interleaved in any
\* order, an access fails exactly when its own guard's allowlist rejects the
\* header, and a guard's signal changes only in a step where an access of
\* that same guard fails, from unresolved to the error that access threw.
C15_GuardsAreIsolated ==
  /\ []JudgedAgainstOwnAllowlist
  /\ [][\A g \in GuardIds :
          promises'[g] # promises[g] =>
            /\ last'.guard = g
            /\ last'.kind = "throw"
            /\ promises[g] = Pending
            /\ promises'[g] = last'.error]_vars

\* The same request guarded twice with different allowlists: a read on guard 1
\* failed and resolved its signal, after guard 2's iterator returned the same header;
\* guard 2's signal is unresolved
C15_Witness ==
  /\ guards[1].headers = guards[2].headers
  /\ guards[1].allowedHosts = {}
  /\ guards[2].allowedHosts = { <<"a",".","b">>, <<"*",".","v">> }
  /\ OriginalGet(guards[1].headers, "host") = <<"s",".","v">>
  /\ last.guard = 1
  /\ last.op = "get"
  /\ last.kind = "throw"
  /\ promises[1] = last.error
  /\ promises[2] = Pending
  /\ guards[2].pos = 2

----------------------------------------------------------------------------
(* Claims about one guarded request: the spelling of the name, what of the
   value the decision looks at, and an empty first value *)

\* The sensitive header a caller's spelling names, "" when it names none
SensitiveHeaderNamed(name) ==
  IF name \in {"host", "Host", "HOST"} THEN "host"
  ELSE IF name \in {"x-forwarded-host", "X-Forwarded-Host"} THEN "x-forwarded-host"
  ELSE ""

\* C16: whether get validates ignores the case of the name it is passed:
\* get('Host'), get('HOST') and get('X-Forwarded-Host') throw, with the signal
\* resolved, exactly when the stored value of host, respectively
\* x-forwarded-host, is rejected, as get('host') and get('x-forwarded-host')
\* do, and return the stored value otherwise.
C16_NameCaseIgnored ==
  (last.op = "get" /\ SensitiveHeaderNamed(last.name) # "") =>
    LET n == SensitiveHeaderNamed(last.name)
    IN /\ (last.kind = "throw") <=> GuardRejects(n)
       /\ last.kind = "throw" => onErrorPromise # Pending /\ last.signalled = last.error
       /\ last.kind = "return" => last.value = OriginalGet(headers, n)

C16_Witness ==
  /\ last.op = "get"
  /\ last.name = "HOST"
  /\ OriginalGet(headers, "host") = <<"e",".","c">>
  /\ last.kind = "throw"
  /\ onErrorPromise = last.error

\* Stored values whose first value parses to the same hostname as that of v
SameFirstValueHostname(v) ==
  { w \in SensitiveValues \ {Null} :
      /\ ~Falsy(GetFirstHeaderValue(w))
      /\ URLCanParse(GetFirstHeaderValue(w))
      /\ URLHostname(GetFirstHeaderValue(w)) = URLHostname(v) }

\* C17: the allowlist decision of get on a sensitive header looks at the
\* hostname of the first comma-separated value only. get throws 'is not
\* allowed' exactly when the first value parses and its hostname is not
\* allowed; for a first value that parses, every stored value whose first
\* value has the same hostname, whatever its port suffix and whatever follows
\* its first comma, is accepted when this one is and rejected when this one
\* is; an accepted get returns the complete stored value.
C17_DecisionByFirstHostname ==
  (last.op = "get" /\ last.name \in {"host", "x-forwarded-host"}) =>
    LET stored == OriginalGet(headers, last.name)
        v == FirstValueOf(last.name)
        parsed == Present(v) /\ v # <<>> /\ URLCanParse(v)
    IN /\ (last.kind = "throw" /\ last.error.kind = "HeaderNotAllowed")
            <=> (parsed /\ ~AllowedByAllowlist(URLHostname(v)))
       /\ parsed =>
            \A w \in SameFirstValueHostname(v) :
              (last.kind = "throw") <=>
                (VerifyHostAllowed(last.name, w, allowedHosts, 0) # NoError)
       /\ last.kind = "return" => last.value = stored

\* 'a.b:80' was read and returned whole, as 'a.b', 'A.B' and 'a.b, e.c' would be
C17_Witness ==
  /\ last.op = "get"
  /\ last.name = "host"
  /\ OriginalGet(headers, "host") = <<"a",".","b",":","8","0">>
  /\ last.kind = "return"
  /\ last.value = <<"a",".","b",":","8","0">>
  /\ { <<"a",".","b">>, <<"a",".","b",","," ","e",".","c">> }
       \subseteq SameFirstValueHostname(<<"a",".","b",":","8","0">>)

\* Header n is stored and its first comma-separated value is empty
EmptyFirstValue(n) ==
  OriginalGet(headers, n) # Null /\ FirstValueOf(n) = <<>>

\* C18: a sensitive header whose first comma-separated value is empty is
\* never rejected: validateRequest raises no format error for it, get and
\* the iterator of entries return it as stored, values returns the stored
\* values, none of them throws because of it, and the signal is not resolved
\* with an error about it, whatever the allowlist and whatever follows the
\* first comma.
C18_EmptyFirstValueNeverRejected ==
  \A n \in {"host", "x-forwarded-host"} :
    EmptyFirstValue(n) =>
      /\ last.error.name # n
      /\ SensitiveHeaderNamed(onErrorPromise.name) # n
      /\ (last.op = "validateRequest" /\ last.kind = "throw") =>
           last.error.kind = "UrlNotAllowed"
      /\ (last.op = "get" /\ SensitiveHeaderNamed(last.name) = n) =>
           last.kind = "return" /\ last.value = OriginalGet(headers, n)
      /\ last.op = "values" =>
           last.kind = "return" /\ last.values = OriginalValues(headers)
      /\ (last.op = "next" /\ last.name = n) =>
           last.kind = "return" /\ last.entry = Entry(n, OriginalGet(headers, n))

\* The iterator of entries returned host: ', e.c' under an empty allowlist
C18_Witness ==
  /\ OriginalGet(headers, "host") = <<",", " ", "e", ".", "c">>
  /\ allowedHosts = {}
  /\ last.op = "next"
  /\ last.name = "host"
  /\ last.kind = "return"
  /\ last.entry.value = <<",", " ", "e", ".", "c">>
  /\ onErrorPromise = Pending

====
